---- MODULE Spec2Model ----
(***************************************************************************)
(* Model of the AI triage adjuster of nox-plugin-triage-agent              *)
(* (aiTriageFindings and its helpers).                                     *)
(*                                                                         *)
(* A Go string is a sequence of symbols.  A symbol is a TLA+ string: one   *)
(* character wherever the code looks inside the text (letters that are     *)
(* case folded, white space, back ticks, brackets, commas), or an atom     *)
(* that stands for a run of text the code only copies or compares as a     *)
(* whole (a serialized JSON object, an error text).  "" is <<>>.           *)
(***************************************************************************)
EXTENDS Integers, Sequences, FiniteSets, TLC

\* ------------------------------------------------------------- bounds
MaxFindings == 2

MaxAdjustments == 2
\* The calls of aiTriageFindings made one after the other on the same batch.
MaxRuns == 2
\* The entries (files and directories) of a workspace.
MaxEntries == 3

\* ---------------------------------------------------- option values
\* A nil pointer, nil map or nil error is Nil; a present one is Some(x).
Nil == <<>>

Some(x) == <<x>>

\* ------------------------------------------------------------ strings
UpperLetters ==
  <<"A","B","C","D","E","F","G","H","I","J","K","L","M",
    "N","O","P","Q","R","S","T","U","V","W","X","Y","Z">>

LowerLetters ==
  <<"a","b","c","d","e","f","g","h","i","j","k","l","m",
    "n","o","p","q","r","s","t","u","v","w","x","y","z">>

ToLowerCh(c) ==
  IF \E i \in 1..26 : UpperLetters[i] = c
  THEN LowerLetters[CHOOSE i \in 1..26 : UpperLetters[i] = c]
  ELSE c

\* strings.ToLower
ToLower(s) == [i \in 1..Len(s) |-> ToLowerCh(s[i])]

\* unicode.IsSpace on the model's symbols (form feed stands for the white
\* space characters that JSON does not accept).
SpaceChars == {" ", "\n", "\t", "\r", "\f"}

\* The white space encoding/json skips around values.
JSONSpaceChars == {" ", "\n", "\t", "\r"}

SetMin(S) == CHOOSE x \in S : \A y \in S : x <= y

SetMax(S) == CHOOSE x \in S : \A y \in S : x >= y

\* s without its leading and trailing symbols of W.
TrimSet(s, W) ==
  LET keep == {i \in 1..Len(s) : s[i] \notin W}
  IN IF keep = {} THEN <<>> ELSE SubSeq(s, SetMin(keep), SetMax(keep))

\* strings.TrimSpace
TrimSpace(s) == TrimSet(s, SpaceChars)

\* strings.HasPrefix
HasPrefix(s, p) == Len(s) >= Len(p) /\ SubSeq(s, 1, Len(p)) = p

\* strings.Split(s, sep) for a one-symbol separator: always at least one line.
RECURSIVE Split(_, _)
Split(s, sep) ==
  IF \E i \in 1..Len(s) : s[i] = sep
  THEN LET i == CHOOSE k \in 1..Len(s) : s[k] = sep /\ \A j \in 1..(k - 1) : s[j] # sep
       IN <<SubSeq(s, 1, i - 1)>> \o Split(SubSeq(s, i + 1, Len(s)), sep)
  ELSE <<s>>

\* strings.Join(lines, sep)
RECURSIVE Join(_, _)
Join(lines, sep) ==
  IF lines = <<>> THEN <<>>
  ELSE IF Len(lines) = 1 THEN lines[1]
  ELSE lines[1] \o <<sep>> \o Join(Tail(lines), sep)

BoundedSeq(S, n) == UNION {[1..k -> S] : k \in 0..n}

\* --------------------------------------------------------- severities
\* pluginv1.Severity: 0 is the unspecified value, the five named ones follow.
SeverityUnspecified == 0

SeverityInfo == 1

SeverityLow == 2

SeverityMedium == 3

SeverityHigh == 4

SeverityCritical == 5

Severities == {SeverityInfo, SeverityLow, SeverityMedium, SeverityHigh, SeverityCritical}

\* Severity.String(): the display name of a severity.
SeverityString(sev) ==
  CASE sev = SeverityInfo -> <<"INFO">>
    [] sev = SeverityLow -> <<"LOW">>
    [] sev = SeverityMedium -> <<"MEDIUM">>
    [] sev = SeverityHigh -> <<"HIGH">>
    [] sev = SeverityCritical -> <<"CRITICAL">>
    [] OTHER -> <<"SEVERITY_UNSPECIFIED">>

critical == <<"c","r","i","t","i","c","a","l">>

high == <<"h","i","g","h">>

medium == <<"m","e","d","i","u","m">>

low == <<"l","o","w">>

info == <<"i","n","f","o">>

\* A faulty variant of parseSeverity: one that compares without folding the case.
parseSeverity_CaseSensitive(s) ==
  CASE s = critical -> SeverityCritical
    [] s = high -> SeverityHigh
    [] s = medium -> SeverityMedium
    [] s = low -> SeverityLow
    [] s = info -> SeverityInfo
    [] OTHER -> SeverityUnspecified

\* parseSeverity converts a severity string to the enum value.
parseSeverity(s) ==
  LET l == ToLower(s)
  IN CASE l = critical -> SeverityCritical
       [] l = high -> SeverityHigh
       [] l = medium -> SeverityMedium
       [] l = low -> SeverityLow
       [] l = info -> SeverityInfo
       [] OTHER -> SeverityUnspecified

\* --------------------------------------------------------- priorities
immediate == <<"i","m","m","e","d","i","a","t","e">>

scheduled == <<"s","c","h","e","d","u","l","e","d">>

backlog == <<"b","a","c","k","l","o","g">>

informational == <<"i","n","f","o","r","m","a","t","i","o","n","a","l">>

\* The four priority names of the rule table.
PriorityNames == {immediate, scheduled, backlog, informational}

\* ------------------------------------------------------------ integers
\* A Go int (64 bits) n is the pair hi, lo with n = hi * 2^32 + lo and lo in
\* the signed 32-bit range; the pair is unique.
Int64(hi, lo) == [hi |-> hi, lo |-> lo]

\* int32(n): the conversion keeps the low 32 bits.
ToInt32(n) == n.lo

\* ----------------------------------------------------------- findings
\* pluginv1.Finding.  Location and Metadata are Nil or Some(value); a
\* metadata map is a function from its keys to strings.  The pool holds
\* findings as the scanner and the tests build them, and one that earlier
\* calls of aiTriageFindings have merged and then error-tagged.
NoMetadata == [k \in {} |-> <<>>]

MetadataOf(pairs) == [k \in {p[1] : p \in pairs} |-> (CHOOSE p \in pairs : p[1] = k)[2]]

\* f.GetMetadata(): the map, the empty map for nil.
GetMetadata(f) == IF f.Metadata = Nil THEN NoMetadata ELSE f.Metadata[1]

\* m[k] in Go: the zero value "" for an absent key.
MapGet(m, k) == IF k \in DOMAIN m THEN m[k] ELSE <<>>

\* m[k] = v
MapSet(m, k, v) == [x \in (DOMAIN m) \cup {k} |-> IF x = k THEN v ELSE m[x]]

FindingPool ==
  { [RuleId |-> "TRIAGE-001", Severity |-> SeverityHigh, Confidence |-> "HIGH",
     Message |-> "eval() with user input",
     Location |-> Some([FilePath |-> "app.py", StartLine |-> 7, EndLine |-> 7]),
     Metadata |-> Some(MetadataOf({<<"priority", immediate>>, <<"language", <<"python">>>>}))],
    [RuleId |-> "TRIAGE-002", Severity |-> SeverityMedium, Confidence |-> "HIGH",
     Message |-> "request.args access",
     Location |-> Some([FilePath |-> "api.py", StartLine |-> 12, EndLine |-> 12]),
     Metadata |-> Some(MetadataOf({<<"priority", scheduled>>}))],
    [RuleId |-> "TRIAGE-001", Severity |-> SeverityHigh, Confidence |-> "HIGH",
     Message |-> "test finding",
     Location |-> Some([FilePath |-> "app.py", StartLine |-> 1, EndLine |-> 1]),
     Metadata |-> Nil],
    [RuleId |-> "TRIAGE-003", Severity |-> SeverityLow, Confidence |-> "MEDIUM",
     Message |-> "deprecated API",
     Location |-> Nil,
     Metadata |-> Nil],
    [RuleId |-> "TRIAGE-002", Severity |-> SeverityLow, Confidence |-> "HIGH",
     Message |-> "request.args access",
     Location |-> Some([FilePath |-> "api.py", StartLine |-> 12, EndLine |-> 12]),
     Metadata |-> Some(MetadataOf({<<"priority", backlog>>,
                                   <<"ai_triaged", <<"true">>>>,
                                   <<"ai_classification", <<"false_positive">>>>,
                                   <<"ai_triage_reason", <<"validated by middleware">>>>,
                                   <<"ai_original_severity", <<"MEDIUM">>>>,
                                   <<"ai_original_priority", scheduled>>,
                                   <<"ai_triage_error",
                                     <<"LLM call failed: ", "connection refused">>>>}))] }

\* The batches handed to aiTriageFindings.
Batches == BoundedSeq(FindingPool, MaxFindings)

\* -------------------------------------------------------- adjustments
\* triageAdjustment, as decoded from one JSON object of the response.
Adjustment(rule, file, line, sev, prio, class, reason) ==
  [RuleID |-> rule, File |-> file, Line |-> line, AdjustedSeverity |-> sev,
   AdjustedPriority |-> prio, Classification |-> class, Reason |-> reason]

\* The zero value of triageAdjustment ({} or null as an array element).
ZeroAdjustment == Adjustment("", "", Int64(0, 0), <<>>, <<>>, <<>>, <<>>)

\* The JSON objects that occur in responses: the atom that stands for the
\* object's text, and the adjustment encoding/json decodes it to.
Objects ==
  << [sym |-> "{adj1}",
      adj |-> Adjustment("TRIAGE-001", "app.py", Int64(0, 7), critical, immediate,
                         <<"true_positive">>, <<"unsanitized user input">>)],
     [sym |-> "{adj2}",
      adj |-> Adjustment("TRIAGE-001", "app.py", Int64(0, 7), <<"L","O","W">>, <<>>,
                         <<"false_positive">>, <<"validated by middleware">>)],
     [sym |-> "{adj3}",
      adj |-> Adjustment("TRIAGE-002", "api.py", Int64(0, 12), <<"u","r","g","e","n","t">>,
                         <<"B","A","C","K","L","O","G">>,
                         <<"needs_review">>, <<"unclear data flow">>)],
     [sym |-> "{adj4}",
      adj |-> Adjustment("TRIAGE-001", "app.py", Int64(1, 7), info, informational,
                         <<"false_positive">>, <<"line out of range">>)],
     [sym |-> "{adj5}",
      adj |-> Adjustment("TRIAGE-009", "other.py", Int64(0, 3), high, scheduled,
                         <<"true_positive">>, <<"unknown finding">>)],
     [sym |-> "{adj6}",
      adj |-> Adjustment("TRIAGE-002", "api.py", Int64(0, 12), <<>>, backlog,
                         <<"false_positive">>, <<"not security relevant">>)],
     [sym |-> "{adj7}",
      adj |-> Adjustment("TRIAGE-003", "", Int64(0, 0), <<"M","e","d","i","u","m">>,
                         <<"U","r","g","e","n","t">>,
                         <<"needs_review">>, <<"no location">>)] >>

ObjectSyms == {Objects[i].sym : i \in 1..Len(Objects)}

DecodeObject(sym) == Objects[CHOOSE i \in 1..Len(Objects) : Objects[i].sym = sym].adj

\* json.Marshal of a list of the objects above: [obj,obj,...].
Marshal(objs) ==
  <<"[">> \o Join([i \in 1..Len(objs) |-> <<objs[i]>>], ",") \o <<"]">>


\* ------------------------------------------------------------ parsing
\* The symbol of the back tick character (a TLA+ string cannot hold one).
BackTick == "BACKTICK"

\* The three back ticks of a markdown code fence.
Fence == <<BackTick, BackTick, BackTick>>

\* The error encoding/json reports (malformed text, or a value of the wrong
\* shape for []triageAdjustment).
JSONError == <<"json: cannot decode">>

\* One element of a JSON array decodes to an adjustment: an object, or {} or
\* null (both leave the zero value).
IsElement(e) == Len(e) = 1 /\ e[1] \in ObjectSyms \cup {"{}", "null"}

DecodeElement(e) == IF e[1] \in ObjectSyms THEN DecodeObject(e[1]) ELSE ZeroAdjustment

\* json.Unmarshal([]byte(content), &adjustments): the decoded list, or an
\* error.  null decodes to the nil list without an error.
json_Unmarshal(content) ==
  LET t == TrimSet(content, JSONSpaceChars)
      inner == SubSeq(t, 2, Len(t) - 1)
      elems == [i \in 1..Len(Split(inner, ",")) |-> TrimSet(Split(inner, ",")[i], JSONSpaceChars)]
  IN IF t = <<"null">>
     THEN [adjustments |-> <<>>, err |-> Nil]
     ELSE IF Len(t) >= 2 /\ t[1] = "[" /\ t[Len(t)] = "]"
     THEN IF TrimSet(inner, JSONSpaceChars) = <<>>
          THEN [adjustments |-> <<>>, err |-> Nil]
          ELSE IF \A i \in 1..Len(elems) : IsElement(elems[i])
          THEN [adjustments |-> [i \in 1..Len(elems) |-> DecodeElement(elems[i])], err |-> Nil]
          ELSE [adjustments |-> <<>>, err |-> Some(JSONError)]
     ELSE [adjustments |-> <<>>, err |-> Some(JSONError)]

\* A faulty variant of StripFences: one that only strips a fence line that is exactly
\* three back ticks (no language tag).
StripFences_NoTag(content) ==
  LET lines0 == Split(content, "\n")
      lines1 == IF Len(lines0) >= 2 /\ lines0[1] = Fence THEN Tail(lines0) ELSE lines0
      lines2 == IF Len(lines1) > 0 /\ HasPrefix(TrimSpace(lines1[Len(lines1)]), Fence)
                THEN SubSeq(lines1, 1, Len(lines1) - 1)
                ELSE lines1
  IN IF HasPrefix(content, Fence) THEN Join(lines2, "\n") ELSE content

\* parseTriageResponse, "Strip markdown code fences if present", on the
\* trimmed content.
StripFences(content) ==
  LET lines0 == Split(content, "\n")
      lines1 == IF Len(lines0) >= 2 THEN Tail(lines0) ELSE lines0
      lines2 == IF Len(lines1) > 0 /\ HasPrefix(TrimSpace(lines1[Len(lines1)]), Fence)
                THEN SubSeq(lines1, 1, Len(lines1) - 1)
                ELSE lines1
  IN IF HasPrefix(content, Fence) THEN Join(lines2, "\n") ELSE content

\* fmt.Errorf("invalid JSON in LLM response: %w", err)
WrapJSONError(e) == <<"invalid JSON in LLM response: ">> \o e

\* parseTriageResponse extracts the adjustments from the response content.
parseTriageResponse(content) ==
  LET r == json_Unmarshal(StripFences(TrimSpace(content)))
  IN IF r.err # Nil
     THEN [adjustments |-> <<>>, err |-> Some(WrapJSONError(r.err[1]))]
     ELSE [adjustments |-> r.adjustments, err |-> Nil]

\* ------------------------------------------------------------ merging
\* The lookup key of an adjustment: key{a.RuleID, a.File, int32(a.Line)}.
AdjustmentKey(a) == <<a.RuleID, a.File, ToInt32(a.Line)>>

\* The lookup key of a finding; a finding without location has file "" and
\* line 0.
FindingKey(f) ==
  IF f.Location # Nil
  THEN <<f.RuleId, f.Location[1].FilePath, f.Location[1].StartLine>>
  ELSE <<f.RuleId, "", 0>>

\* adj, ok := lookup[k] after the map was filled in the order of the
\* adjustments: Nil when no adjustment has the key, else the last one.
Lookup(adjs, k) ==
  LET hits == {i \in 1..Len(adjs) : AdjustmentKey(adjs[i]) = k}
  IN IF hits = {} THEN Nil ELSE Some(adjs[SetMax(hits)])

\* A faulty variant of applyAdjustment: one that overwrites the priority before it
\* records the original one.
applyAdjustment_RecordsNewPriority(f, adj) ==
  LET m1 == MapSet(MapSet(MapSet(GetMetadata(f), "ai_triaged", <<"true">>),
                          "ai_classification", adj.Classification),
                   "ai_triage_reason", adj.Reason)
      sev == parseSeverity(adj.AdjustedSeverity)
      m2 == IF sev # SeverityUnspecified
            THEN MapSet(m1, "ai_original_severity", SeverityString(f.Severity))
            ELSE m1
      m3 == IF adj.AdjustedPriority # <<>>
            THEN MapSet(MapSet(m2, "priority", adj.AdjustedPriority),
                        "ai_original_priority", adj.AdjustedPriority)
            ELSE m2
  IN [f EXCEPT !.Severity = IF sev # SeverityUnspecified THEN sev ELSE f.Severity,
               !.Metadata = Some(m3)]

\* A faulty variant of applyAdjustment: one that folds the case of the priority as
\* parseSeverity folds that of the severity.
applyAdjustment_LowersPriority(f, adj) ==
  LET m1 == MapSet(MapSet(MapSet(GetMetadata(f), "ai_triaged", <<"true">>),
                          "ai_classification", adj.Classification),
                   "ai_triage_reason", adj.Reason)
      sev == parseSeverity(adj.AdjustedSeverity)
      m2 == IF sev # SeverityUnspecified
            THEN MapSet(m1, "ai_original_severity", SeverityString(f.Severity))
            ELSE m1
      m3 == IF adj.AdjustedPriority # <<>>
            THEN MapSet(MapSet(m2, "ai_original_priority", MapGet(m2, "priority")),
                        "priority", ToLower(adj.AdjustedPriority))
            ELSE m2
  IN [f EXCEPT !.Severity = IF sev # SeverityUnspecified THEN sev ELSE f.Severity,
               !.Metadata = Some(m3)]

\* The body of the loop of applyAdjustments for a finding f found in the
\* lookup with adjustment adj.
\* A faulty variant of applyAdjustment: one that records the original severity
\* and the original priority only when none is recorded yet.
applyAdjustment_KeepsFirstOriginal(f, adj) ==
  LET m1 == MapSet(MapSet(MapSet(GetMetadata(f), "ai_triaged", <<"true">>),
                          "ai_classification", adj.Classification),
                   "ai_triage_reason", adj.Reason)
      sev == parseSeverity(adj.AdjustedSeverity)
      m2 == IF sev # SeverityUnspecified /\ "ai_original_severity" \notin DOMAIN m1
            THEN MapSet(m1, "ai_original_severity", SeverityString(f.Severity))
            ELSE m1
      m3 == IF adj.AdjustedPriority # <<>>
            THEN MapSet(IF "ai_original_priority" \notin DOMAIN m2
                        THEN MapSet(m2, "ai_original_priority", MapGet(m2, "priority"))
                        ELSE m2,
                        "priority", adj.AdjustedPriority)
            ELSE m2
  IN [f EXCEPT !.Severity = IF sev # SeverityUnspecified THEN sev ELSE f.Severity,
               !.Metadata = Some(m3)]

\* A faulty variant of applyAdjustment: one that assigns the parsed severity
\* without looking whether the name was recognized.
applyAdjustment_AssignsUnchecked(f, adj) ==
  LET m1 == MapSet(MapSet(MapSet(GetMetadata(f), "ai_triaged", <<"true">>),
                          "ai_classification", adj.Classification),
                   "ai_triage_reason", adj.Reason)
      sev == parseSeverity(adj.AdjustedSeverity)
      m2 == MapSet(m1, "ai_original_severity", SeverityString(f.Severity))
      m3 == IF adj.AdjustedPriority # <<>>
            THEN MapSet(MapSet(m2, "ai_original_priority", MapGet(m2, "priority")),
                        "priority", adj.AdjustedPriority)
            ELSE m2
  IN [f EXCEPT !.Severity = sev, !.Metadata = Some(m3)]

applyAdjustment(f, adj) ==
  LET m1 == MapSet(MapSet(MapSet(GetMetadata(f), "ai_triaged", <<"true">>),
                          "ai_classification", adj.Classification),
                   "ai_triage_reason", adj.Reason)
      sev == parseSeverity(adj.AdjustedSeverity)
      m2 == IF sev # SeverityUnspecified
            THEN MapSet(m1, "ai_original_severity", SeverityString(f.Severity))
            ELSE m1
      m3 == IF adj.AdjustedPriority # <<>>
            THEN MapSet(MapSet(m2, "ai_original_priority", MapGet(m2, "priority")),
                        "priority", adj.AdjustedPriority)
            ELSE m2
  IN [f EXCEPT !.Severity = IF sev # SeverityUnspecified THEN sev ELSE f.Severity,
               !.Metadata = Some(m3)]

\* A faulty variant of applyAdjustments: one that keeps only the findings it adjusted.
applyAdjustments_OnlyMatched(fs, adjs) ==
  LET hits == SelectSeq(fs, LAMBDA f : Lookup(adjs, FindingKey(f)) # Nil)
  IN [i \in 1..Len(hits) |->
        applyAdjustment(hits[i], Lookup(adjs, FindingKey(hits[i]))[1])]

\* applyAdjustments modifies the findings in place from the adjustments.
applyAdjustments(fs, adjs) ==
  [i \in 1..Len(fs) |->
     LET hit == Lookup(adjs, FindingKey(fs[i]))
     IN IF hit = Nil THEN fs[i] ELSE applyAdjustment(fs[i], hit[1])]

\* A faulty variant of markTriageError: one that gives every finding a fresh map with
\* the error alone.
markTriageError_FreshMap(fs, errMsg) ==
  [i \in 1..Len(fs) |->
     [fs[i] EXCEPT !.Metadata = Some(MapSet(NoMetadata, "ai_triage_error", errMsg))]]

\* markTriageError adds ai_triage_error to every finding.
\* A faulty variant of markTriageError: one that appends the message to the
\* entry that is already there.
markTriageError_Appends(fs, errMsg) ==
  [i \in 1..Len(fs) |->
     [fs[i] EXCEPT !.Metadata =
        Some(MapSet(GetMetadata(fs[i]), "ai_triage_error",
                    MapGet(GetMetadata(fs[i]), "ai_triage_error") \o errMsg))]]

markTriageError(fs, errMsg) ==
  [i \in 1..Len(fs) |->
     [fs[i] EXCEPT !.Metadata =
        Some(MapSet(GetMetadata(fs[i]), "ai_triage_error", errMsg))]]


\* ------------------------------------------------- the service's answers
\* J wrapped in a fenced code block: a line of three back ticks, J, a line of
\* three back ticks.
FenceWrap(J) == Fence \o <<"\n">> \o J \o <<"\n">> \o Fence

\* The same with the language tag json after the leading back ticks.
FenceWrapTag(J) == Fence \o <<"j", "s", "o", "n", "\n">> \o J \o <<"\n">> \o Fence

\* Response texts that are no JSON array of adjustments, or one with white
\* space or half a fence around it.
OddBodies ==
  { <<"this is not valid JSON">>,
    <<>>,
    <<"{}">>,
    <<"null">>,
    <<"[", "{adj1}">>,
    <<"[", "{adj1}", ",", "7", "]">>,
    <<" ", "[", "{adj1}", "]", "\n">>,
    <<"\f", "[", "{adj1}", "]">>,
    Fence \o <<"j", "s", "o", "n", "\n", "[", "{adj1}", "]">> }

\* An array of three objects: two adjustments for the same finding and one for
\* a line beyond the 32-bit range.
LongBody == Marshal(<<"{adj2}", "{adj1}", "{adj4}">>)

\* The texts before any wrapping: the arrays of up to MaxAdjustments objects
\* and the odd ones.
RawBodies ==
  {Marshal(l) : l \in BoundedSeq(ObjectSyms, MaxAdjustments)} \cup OddBodies \cup {LongBody}

\* The response contents the service may answer with.
Bodies ==
  RawBodies \cup {FenceWrap(J) : J \in RawBodies} \cup {FenceWrapTag(J) : J \in RawBodies}

\* The errors the service call may fail with (cancellation is one of them).
CallErrors == {<<"connection refused">>, <<"context canceled">>}

\* What provider.Complete returns: an error, or a response with its content.
Outcomes ==
  {[err |-> Some(e), content |-> <<>>] : e \in CallErrors}
    \cup {[err |-> Nil, content |-> b] : b \in Bodies}

\* fmt.Sprintf("LLM call failed: %v", err)
CallFailedMsg(e) == <<"LLM call failed: ">> \o e

\* fmt.Sprintf("failed to parse LLM response: %v", err)
ParseFailedMsg(e) == <<"failed to parse LLM response: ">> \o e

\* if err != nil { log; markTriageError(findings, "LLM call failed: ..."); return }
OnCallError(fs, e) == markTriageError(fs, CallFailedMsg(e))

\* A faulty variant of OnParseError: one that logs the error and returns.
OnParseError_LogOnly(fs, e) == fs

\* if err != nil { log; markTriageError(findings, "failed to parse ..."); return }
OnParseError(fs, e) == markTriageError(fs, ParseFailedMsg(e))

\* What aiTriageFindings makes of the batch fs once the service has answered
\* with the content body: the parse, then the error tag or the merge.
aiTriageAnswered(fs, body) ==
  LET r == parseTriageResponse(body)
  IN IF r.err # Nil THEN OnParseError(fs, r.err[1]) ELSE applyAdjustments(fs, r.adjustments)

\* -------------------------------------------------------------- state
VARIABLES
  findings,     \* the batch, modified in place
  pc,           \* where aiTriageFindings is
  before,       \* the batch as it was when the call began
  calls,        \* provider.Complete calls made by the call
  content,      \* resp.Message.Content
  err,          \* the err variable of aiTriageFindings
  adjustments,  \* the parsed adjustments
  trace,        \* the steps of the call so far, in order
  history,      \* the calls that have returned: batch before, batch after, steps
  req,          \* the scan request: Input["workspace_root"], WorkspaceRoot, Input["ai_triage"]
  workspace,    \* the entries under the workspace root, in the walker's order
  ctxErr,       \* ctx.Err()
  scanPc,       \* where handleScan is
  walkIdx,      \* the entries the walker has passed
  skipped,      \* the directories the walker does not descend into
  cur,          \* the open file scanFile reads
  lineNum,      \* lineNum of scanFile
  walkErr,      \* the error filepath.WalkDir returned
  resp,         \* the findings of the response builder
  events,       \* what the callback did with each entry it was called for
  result        \* what handleScan returned

\* The variables of one aiTriageFindings call.
callVars == <<findings, pc, before, calls, content, err, adjustments, trace, history>>

\* The variables of one handleScan call.
scanVars ==
  <<req, workspace, ctxErr, scanPc, walkIdx, skipped, cur, lineNum, walkErr, resp, events,
    result>>

vars == <<callVars, scanVars>>

\* No scan is going on.
ScanIdle ==
  /\ req = [inputRoot |-> Nil, reqRoot |-> <<>>, aiTriage |-> Nil]
  /\ workspace = <<>>
  /\ ctxErr = Nil
  /\ scanPc = "Idle"
  /\ walkIdx = 0
  /\ skipped = {}
  /\ cur = Nil
  /\ lineNum = 0
  /\ walkErr = Nil
  /\ resp = <<>>
  /\ events = <<>>
  /\ result = Nil

Init ==
  /\ findings \in Batches
  /\ pc = "Start"
  /\ before = findings
  /\ calls = 0
  /\ content = <<>>
  /\ err = Nil
  /\ adjustments = <<>>
  /\ trace = <<>>
  /\ history = <<>>
  /\ ScanIdle

\* A faulty variant of EntryPc: one without the check for the empty batch.
EntryPc_NoGuard(fs) == "Requesting"

\* if len(findings) == 0 { return }
EntryPc(fs) == IF Len(fs) = 0 THEN "Done" ELSE "Requesting"

\* aiTriageFindings is called on the batch.
Adjust ==
  /\ pc = "Start"
  /\ pc' = EntryPc(findings)
  /\ trace' = Append(trace, "enter")
  /\ UNCHANGED <<findings, before, calls, content, err, adjustments, history>>
  /\ UNCHANGED scanVars

\* resp, err := provider.Complete(ctx, ...)
Complete ==
  /\ pc = "Requesting"
  /\ \E o \in Outcomes :
       /\ err' = o.err
       /\ content' = o.content
       /\ pc' = IF o.err # Nil THEN "CallFailed" ELSE "Parsing"
       /\ trace' = Append(trace, IF o.err # Nil THEN "callErr" ELSE "callOk")
  /\ calls' = calls + 1
  /\ UNCHANGED <<findings, before, adjustments, history>>
  /\ UNCHANGED scanVars

\* A faulty variant of TagCallError: one whose branch lacks the return, so that
\* the call goes on to parse the response it never got.
TagCallError_NoReturn ==
  /\ pc = "CallFailed"
  /\ findings' = OnCallError(findings, err[1])
  /\ trace' = Append(trace, "tag")
  /\ pc' = "Parsing"
  /\ UNCHANGED <<before, calls, content, err, adjustments, history>>
  /\ UNCHANGED scanVars

\* The branch err != nil after the call.
TagCallError ==
  /\ pc = "CallFailed"
  /\ findings' = OnCallError(findings, err[1])
  /\ trace' = Append(trace, "tag")
  /\ pc' = "Done"
  /\ UNCHANGED <<before, calls, content, err, adjustments, history>>
  /\ UNCHANGED scanVars

\* adjustments, err := parseTriageResponse(resp.Message.Content)
Parse ==
  /\ pc = "Parsing"
  /\ LET r == parseTriageResponse(content)
     IN /\ adjustments' = r.adjustments
        /\ err' = r.err
        /\ pc' = IF r.err # Nil THEN "ParseFailed" ELSE "Merging"
        /\ trace' = Append(trace, IF r.err # Nil THEN "parseErr" ELSE "parseOk")
  /\ UNCHANGED <<findings, before, calls, content, history>>
  /\ UNCHANGED scanVars

\* The branch err != nil after the parse.
TagParseError ==
  /\ pc = "ParseFailed"
  /\ findings' = OnParseError(findings, err[1])
  /\ trace' = Append(trace, "tag")
  /\ pc' = "Done"
  /\ UNCHANGED <<before, calls, content, err, adjustments, history>>
  /\ UNCHANGED scanVars

\* applyAdjustments(findings, adjustments)
Merge ==
  /\ pc = "Merging"
  /\ findings' = applyAdjustments(findings, adjustments)
  /\ trace' = Append(trace, "merge")
  /\ pc' = "Done"
  /\ UNCHANGED <<before, calls, content, err, adjustments, history>>
  /\ UNCHANGED scanVars

\* aiTriageFindings returns: the batch is the caller's again.
Return ==
  /\ pc = "Done"
  /\ pc' = "Returned"
  /\ history' =
       Append(history, [before |-> before, after |-> findings, trace |-> trace, err |-> err,
                        adjustments |-> adjustments])
  /\ UNCHANGED <<findings, before, calls, content, err, adjustments, trace>>
  /\ UNCHANGED scanVars

Next ==
  \/ Adjust
  \/ Complete
  \/ TagCallError
  \/ Parse
  \/ TagParseError
  \/ Merge
  \/ Return

Spec == Init /\ [][Next]_vars

\* ------------------------------------------------ calls one after the other
\* The findings no call has touched yet, as the scanner builds them (and as the
\* tests build them, without metadata).
RepeatPool ==
  {f \in FindingPool : f.Location # Nil /\ "ai_triaged" \notin DOMAIN GetMetadata(f)}

RepeatBatches == BoundedSeq(RepeatPool, MaxFindings)

\* The answers of the service to the calls made one after the other: the errors,
\* a text that is no JSON, null, the empty array and the arrays of one object.
RepeatOutcomes ==
  {[err |-> Some(e), content |-> <<>>] : e \in CallErrors}
    \cup {[err |-> Nil, content |-> b] :
            b \in {<<"this is not valid JSON">>, <<"null">>, Marshal(<<>>)}
                    \cup {Marshal(<<s>>) : s \in {"{adj1}", "{adj2}", "{adj3}", "{adj6}"}}}

InitRepeat ==
  /\ findings \in RepeatBatches
  /\ pc = "Start"
  /\ before = findings
  /\ calls = 0
  /\ content = <<>>
  /\ err = Nil
  /\ adjustments = <<>>
  /\ trace = <<>>
  /\ history = <<>>
  /\ ScanIdle

\* resp, err := provider.Complete(ctx, ...), in a call that may be followed by
\* another one.
CompleteRepeat ==
  /\ pc = "Requesting"
  /\ \E o \in RepeatOutcomes :
       /\ err' = o.err
       /\ content' = o.content
       /\ pc' = IF o.err # Nil THEN "CallFailed" ELSE "Parsing"
       /\ trace' = Append(trace, IF o.err # Nil THEN "callErr" ELSE "callOk")
  /\ calls' = calls + 1
  /\ UNCHANGED <<findings, before, adjustments, history>>
  /\ UNCHANGED scanVars

\* The caller hands the batch the last call returned to aiTriageFindings again.
Again ==
  /\ pc = "Returned"
  /\ Len(history) < MaxRuns
  /\ pc' = "Start"
  /\ before' = findings
  /\ calls' = 0
  /\ content' = <<>>
  /\ err' = Nil
  /\ adjustments' = <<>>
  /\ trace' = <<>>
  /\ UNCHANGED <<findings, history>>
  /\ UNCHANGED scanVars

NextRepeat ==
  \/ Adjust
  \/ CompleteRepeat
  \/ TagCallError
  \/ Parse
  \/ TagParseError
  \/ Merge
  \/ Return
  \/ Again

RepeatSpec == InitRepeat /\ [][NextRepeat]_vars

\* ------------------------------------------------------------- claims
\* The call has run to its end.
Finished == pc \in {"Done", "Returned"}

\* The step s is among the steps of the call.
Did(s) == \E i \in 1..Len(trace) : trace[i] = s

\* Every field of g but the metadata is that of f.
SameButMetadata(f, g) ==
  /\ g.RuleId = f.RuleId
  /\ g.Severity = f.Severity
  /\ g.Confidence = f.Confidence
  /\ g.Message = f.Message
  /\ g.Location = f.Location

\* g is f with a non-empty ai_triage_error entry and no other change.
ErrorTagOnly(f, g) ==
  /\ SameButMetadata(f, g)
  /\ g.Metadata # Nil
  /\ DOMAIN GetMetadata(g) = DOMAIN GetMetadata(f) \cup {"ai_triage_error"}
  /\ GetMetadata(g)["ai_triage_error"] # <<>>
  /\ \A k \in DOMAIN GetMetadata(f) \ {"ai_triage_error"} :
       GetMetadata(g)[k] = GetMetadata(f)[k]

\* C1: when the service call fails, every finding of the batch ends with a
\* non-empty ai_triage_error and nothing else is changed: severity, priority,
\* rule id, message, location and every other metadata key are as before the
\* call, and no ai_triaged, ai_classification, ai_triage_reason or
\* ai_original_* key is written.
C1_CallFailureOnlyTags ==
  (Finished /\ Did("callErr")) =>
    /\ Len(findings) = Len(before)
    /\ \A i \in 1..Len(before) : ErrorTagOnly(before[i], findings[i])

\* A failed call on a batch with a finding that had no metadata map and one
\* that carried ai_* keys of an earlier call.
C1_Witness ==
  /\ Finished
  /\ Did("callErr")
  /\ Len(before) = 2
  /\ before[1].Metadata = Nil
  /\ "ai_triaged" \in DOMAIN GetMetadata(before[2])
  /\ err = Some(<<"context canceled">>)

\* C2: when the call succeeds but the response cannot be parsed, every
\* finding gets a non-empty ai_triage_error, no adjustment of the response is
\* applied, and all original values are unchanged, as on a service failure.
C2_ParseFailureOnlyTags ==
  (Finished /\ Did("callOk") /\ Did("parseErr")) =>
    /\ Len(findings) = Len(before)
    /\ \A i \in 1..Len(before) : ErrorTagOnly(before[i], findings[i])

\* The response is an array whose first element decodes to an adjustment of
\* the batch's finding and whose second element does not decode.
C2_Witness ==
  /\ Finished
  /\ Did("parseErr")
  /\ content = <<"[", "{adj1}", ",", "7", "]">>
  /\ Len(before) = 1
  /\ FindingKey(before[1]) = AdjustmentKey(DecodeObject("{adj1}"))

\* C3: a call with an empty batch never invokes the service.
C3_EmptyBatchNoCall ==
  Len(before) = 0 => (calls = 0 /\ pc \in {"Start", "Done", "Returned"})

\* The call on the empty batch has returned.
C3_Witness == pc = "Returned" /\ Len(before) = 0 /\ calls = 0

\* The finding at position i is the one that was there before the call.
SameFinding(f, g) ==
  /\ g.RuleId = f.RuleId
  /\ g.Message = f.Message
  /\ g.Location = f.Location

\* C4: the number and the order of the findings is the same after the call
\* as before it, for every outcome of the service.
C4_CountAndOrderKept ==
  /\ Len(findings) = Len(before)
  /\ \A i \in 1..Len(before) : SameFinding(before[i], findings[i])

\* A merged call whose response has more adjustments than the batch has
\* findings, none of which matches; and one with fewer.
C4_Witness ==
  /\ Finished
  /\ Did("merge")
  /\ Len(before) = 1
  /\ Len(adjustments) = 2
  /\ \A j \in 1..2 : AdjustmentKey(adjustments[j]) # FindingKey(before[1])

\* The identity triple of a finding, its line as a 64-bit integer, and the
\* triple (rule_id, file, line) of an adjustment.
TripleOfFinding(f) ==
  IF f.Location # Nil
  THEN <<f.RuleId, f.Location[1].FilePath, Int64(0, f.Location[1].StartLine)>>
  ELSE <<f.RuleId, "", Int64(0, 0)>>

TripleOfAdjustment(a) == <<a.RuleID, a.File, a.Line>>

\* The adjustments of the parsed response that have the triple of finding f.
WithTripleOf(f) ==
  {j \in 1..Len(adjustments) : TripleOfAdjustment(adjustments[j]) = TripleOfFinding(f)}

\* The adjustment the merge found for finding f: Nil or Some(adjustment).
Matched(f) == Lookup(adjustments, FindingKey(f))

\* C5: after a parsed response, every finding whose identity triple equals
\* the triple of an adjustment has ai_triaged = "true" and the classification
\* and reason of an adjustment with that triple, whatever the adjustment's
\* severity and priority are and also when the finding had no metadata map.
C5_TripleMatchGetsTriageMetadata ==
  (Finished /\ Did("merge")) =>
    \A i \in 1..Len(before) :
      WithTripleOf(before[i]) # {} =>
        LET m == GetMetadata(findings[i])
        IN /\ MapGet(m, "ai_triaged") = <<"true">>
           /\ \E j \in WithTripleOf(before[i]) :
                /\ MapGet(m, "ai_classification") = adjustments[j].Classification
                /\ MapGet(m, "ai_triage_reason") = adjustments[j].Reason

\* s and t are equal ignoring the case of their letters.
EqualFold(s, t) ==
  /\ Len(s) = Len(t)
  /\ \A k \in 1..Len(s) : ToLowerCh(s[k]) = ToLowerCh(t[k])

\* The five severity names with the severity each names.
SeverityByName ==
  { <<critical, SeverityCritical>>, <<high, SeverityHigh>>, <<medium, SeverityMedium>>,
    <<low, SeverityLow>>, <<info, SeverityInfo>> }

\* The entry k is in map n exactly as it is in map m: absent in both, or
\* present in both with the same value.
SameEntry(m, n, k) ==
  /\ (k \in DOMAIN n) = (k \in DOMAIN m)
  /\ MapGet(n, k) = MapGet(m, k)

\* C6: for a matched finding the severity is overwritten if and only if the
\* adjustment's adjusted_severity is, ignoring case, one of the five names:
\* then ai_original_severity is the display name of the severity before the
\* overwrite and the severity is the named one; else the severity is unchanged
\* and no ai_original_severity is written.
C6_SeverityOverwrittenIffNamed ==
  (Finished /\ Did("merge")) =>
    \A i \in 1..Len(before) :
      Matched(before[i]) # Nil =>
        LET a == Matched(before[i])[1]
            named == {p \in SeverityByName : EqualFold(a.AdjustedSeverity, p[1])}
            mb == GetMetadata(before[i])
            ma == GetMetadata(findings[i])
        IN IF named # {}
           THEN /\ \E p \in named : findings[i].Severity = p[2]
                /\ "ai_original_severity" \in DOMAIN ma
                /\ ma["ai_original_severity"] = SeverityString(before[i].Severity)
           ELSE /\ findings[i].Severity = before[i].Severity
                /\ SameEntry(mb, ma, "ai_original_severity")

\* One merge lowers a HIGH finding to low by the name LOW and leaves a MEDIUM
\* finding alone whose adjustment names the severity urgent.
C6_Witness ==
  /\ Finished
  /\ Did("merge")
  /\ Len(before) = 2
  /\ before[1].Severity = SeverityHigh
  /\ Matched(before[1]) # Nil
  /\ Matched(before[1])[1].AdjustedSeverity = <<"L", "O", "W">>
  /\ findings[1].Severity = SeverityLow
  /\ before[2].Severity = SeverityMedium
  /\ Matched(before[2]) # Nil
  /\ Matched(before[2])[1].AdjustedSeverity = <<"u", "r", "g", "e", "n", "t">>
  /\ findings[2].Severity = SeverityMedium

\* C7: for a matched finding whose adjustment has a non-empty
\* adjusted_priority, ai_original_priority is the priority entry before the
\* call ("" when there was none) and the priority entry is the adjusted
\* priority; with an empty adjusted_priority the priority entry is unchanged
\* and no ai_original_priority is written.
C7_PriorityOverwrittenIffNonEmpty ==
  (Finished /\ Did("merge")) =>
    \A i \in 1..Len(before) :
      Matched(before[i]) # Nil =>
        LET a == Matched(before[i])[1]
            mb == GetMetadata(before[i])
            ma == GetMetadata(findings[i])
        IN IF a.AdjustedPriority # <<>>
           THEN /\ "ai_original_priority" \in DOMAIN ma
                /\ ma["ai_original_priority"] = MapGet(mb, "priority")
                /\ "priority" \in DOMAIN ma
                /\ ma["priority"] = a.AdjustedPriority
           ELSE /\ SameEntry(mb, ma, "priority")
                /\ SameEntry(mb, ma, "ai_original_priority")

\* One merge gives a finding without metadata a priority, recording "" as
\* the original, and leaves the priority of a finding alone whose adjustment
\* has an empty adjusted_priority.
C7_Witness ==
  /\ Finished
  /\ Did("merge")
  /\ Len(before) = 2
  /\ before[1].Metadata = Nil
  /\ Matched(before[1]) # Nil
  /\ Matched(before[1])[1].AdjustedPriority # <<>>
  /\ GetMetadata(findings[1])["ai_original_priority"] = <<>>
  /\ Matched(before[2]) # Nil
  /\ Matched(before[2])[1].AdjustedPriority = <<>>
  /\ GetMetadata(findings[2])["priority"] = immediate
  /\ "ai_original_priority" \notin DOMAIN GetMetadata(findings[2])

\* The priority entry of finding f.
PriorityOf(f) == MapGet(GetMetadata(f), "priority")

\* C8 as stated: priority strings are matched case insensitively against
\* the four priority names: an adjustment that differs from the matched one
\* only in the letter case of adjusted_priority leaves the same priority
\* value, and a priority that was one of the four names is one of them after
\* the merge.
C8_PriorityCaseInsensitive ==
  (Finished /\ Did("merge")) =>
    \A i \in 1..Len(before) :
      Matched(before[i]) # Nil =>
        LET a == Matched(before[i])[1]
            folded == [a EXCEPT !.AdjustedPriority = ToLower(a.AdjustedPriority)]
        IN /\ PriorityOf(applyAdjustment(before[i], folded)) = PriorityOf(findings[i])
           /\ PriorityOf(before[i]) \in PriorityNames =>
                PriorityOf(findings[i]) \in PriorityNames

\* C8 as amended: a non-empty adjusted_priority is written verbatim, its
\* letter case kept: an adjustment that differs only in the letter case of
\* adjusted_priority leaves a priority that differs in the same letters
\* (equal only ignoring case), and a priority that was one of the four names
\* is one of them after the merge exactly when adjusted_priority is empty or
\* is itself, letter for letter, one of the four names.
C8_PriorityWrittenVerbatim ==
  (Finished /\ Did("merge")) =>
    \A i \in 1..Len(before) :
      Matched(before[i]) # Nil =>
        LET a == Matched(before[i])[1]
            folded == [a EXCEPT !.AdjustedPriority = ToLower(a.AdjustedPriority)]
            other == PriorityOf(applyAdjustment(before[i], folded))
        IN /\ a.AdjustedPriority # <<>> => PriorityOf(findings[i]) = a.AdjustedPriority
           /\ EqualFold(other, PriorityOf(findings[i]))
           /\ (other = PriorityOf(findings[i])) = (a.AdjustedPriority = ToLower(a.AdjustedPriority))
           /\ PriorityOf(before[i]) \in PriorityNames =>
                (PriorityOf(findings[i]) \in PriorityNames)
                  = (a.AdjustedPriority = <<>> \/ a.AdjustedPriority \in PriorityNames)

\* A finding with priority scheduled is matched by an adjustment with
\* adjusted_priority BACKLOG and ends with the priority BACKLOG.
C8_Witness ==
  /\ Finished
  /\ Did("merge")
  /\ Len(before) = 1
  /\ PriorityOf(before[1]) = scheduled
  /\ Matched(before[1]) # Nil
  /\ Matched(before[1])[1].AdjustedPriority = <<"B", "A", "C", "K", "L", "O", "G">>
  /\ PriorityOf(findings[1]) = <<"B", "A", "C", "K", "L", "O", "G">>

\* C9: after a parsed response a finding whose identity triple is that of
\* no adjustment is left completely unchanged; so an adjustment whose triple
\* is that of no finding changes nothing, and one whose triple is that of
\* exactly one finding changes only that finding.
C9_OnlyTripleMatchesChange ==
  (Finished /\ Did("merge")) =>
    \A i \in 1..Len(before) :
      WithTripleOf(before[i]) = {} => findings[i] = before[i]

\* The outcome of parsing J: whether it parsed, and the adjustments.
ParseOutcome(J) ==
  LET r == parseTriageResponse(J)
  IN [ok |-> r.err = Nil, adjustments |-> r.adjustments]

\* The three forms of J parse alike, and the batch the call ends with is the
\* one either fenced form of the content would have given.
FenceTolerant(J) ==
  /\ ParseOutcome(FenceWrap(J)) = ParseOutcome(J)
  /\ ParseOutcome(FenceWrapTag(J)) = ParseOutcome(J)
  /\ Finished =>
       /\ findings = aiTriageAnswered(before, FenceWrap(J))
       /\ findings = aiTriageAnswered(before, FenceWrapTag(J))

\* C10 as stated: for every response body J, parseTriageResponse gives the
\* same outcome for J, for J in a fence and for J in a fence with a language
\* tag, and the batch after the call is the same for the three forms.
C10_FenceTolerantEveryBody == Did("callOk") => FenceTolerant(content)

\* J is not itself fenced (it does not begin, after trimming, with three
\* back ticks) and the white space at its ends is white space of JSON.
PlainBody(J) ==
  /\ ~HasPrefix(TrimSpace(J), Fence)
  /\ TrimSpace(J) = TrimSet(J, JSONSpaceChars)

\* C10 as amended: the same for every response body J that is not itself
\* fenced and whose leading and trailing white space is JSON white space
\* (space, tab, carriage return, line feed).
C10_FenceTolerantPlainBody ==
  (Did("callOk") /\ PlainBody(content)) => FenceTolerant(content)

\* A call whose unfenced response of one adjustment changed the finding.
C10_Witness ==
  /\ Finished
  /\ Did("merge")
  /\ content = Marshal(<<"{adj1}">>)
  /\ PlainBody(content)
  /\ Len(before) = 1
  /\ findings # before
  /\ parseTriageResponse(FenceWrapTag(content)).adjustments = <<DecodeObject("{adj1}")>>

\* ------------------------------------------------------------------ C11
\* The step sequences of one call on a non-empty batch that the per-batch state
\* machine allows: call failed and tagged; call answered, parse failed and
\* tagged; call answered, parsed and merged.
AllowedRuns ==
  { <<"enter", "callErr", "tag">>,
    <<"enter", "callOk", "parseErr", "tag">>,
    <<"enter", "callOk", "parseOk", "merge">> }

\* s is the beginning of t.
IsPrefix(s, t) == Len(s) <= Len(t) /\ SubSeq(t, 1, Len(s)) = s

\* The positions aiTriageFindings can be at after the steps tr: each position
\* short of "Returned" is the guard of exactly one kind of step.
PcAfter(tr) ==
  IF tr = <<>> THEN {"Start"}
  ELSE LET last == tr[Len(tr)]
       IN IF last = "enter" THEN {"Requesting"}
          ELSE IF last = "callErr" THEN {"CallFailed"}
          ELSE IF last = "callOk" THEN {"Parsing"}
          ELSE IF last = "parseErr" THEN {"ParseFailed"}
          ELSE IF last = "parseOk" THEN {"Merging"}
          ELSE {"Done", "Returned"}

\* C11: one call on a non-empty batch follows the per-batch state machine and
\* reaches its end: the steps taken so far always begin one of the three allowed
\* runs (so parsing follows only an answered call, merging only a parse that
\* succeeded, tagging only a failure, and never both tagging and merging), the
\* call is at the position its last step leads to (so it never stops short of
\* its end and takes at most four steps to get there), the service is invoked
\* at most once and exactly once as soon as it has answered, and a call that is
\* done has taken exactly one allowed run and carries no error result besides
\* the batch it hands back.
C11_FollowsStateMachine ==
  Len(before) > 0 =>
    /\ calls <= 1
    /\ \E r \in AllowedRuns : IsPrefix(trace, r)
    /\ pc \in PcAfter(trace)
    /\ (Finished => trace \in AllowedRuns /\ calls = 1)
    /\ (Did("callErr") \/ Did("callOk") => calls = 1)

\* A call whose response did not parse has returned after tagging.
C11_Witness ==
  /\ pc = "Returned"
  /\ Len(before) > 0
  /\ trace = <<"enter", "callOk", "parseErr", "tag">>
  /\ calls = 1

\* ------------------------------------------------------------------ C12
\* The finding carries an ai_triage_error entry.
HasErrorTag(f) == "ai_triage_error" \in DOMAIN GetMetadata(f)

\* The call whose steps are tr failed: it tagged the batch.
FailedRun(tr) == \E i \in 1..Len(tr) : tr[i] = "tag"

\* C12: after any sequence of calls on the same batch, a finding carries
\* ai_triage_error if and only if the most recent call failed (service error or
\* parse error); a batch tagged by an earlier call and then adjusted with
\* success carries no ai_triage_error.
C12_ErrorTagIffLastCallFailed ==
  (pc = "Returned" /\ Len(before) > 0) =>
    \A i \in 1..Len(findings) : HasErrorTag(findings[i]) <=> FailedRun(trace)

\* ------------------------------------------------------------------ C13
\* The calls i and i+1 of the history both failed, with the same error.
FailedTwiceAlike(i) ==
  /\ i + 1 <= Len(history)
  /\ Len(history[i].before) > 0
  /\ FailedRun(history[i].trace)
  /\ history[i + 1].trace = history[i].trace
  /\ history[i + 1].err = history[i].err

\* C13: when a call fails on a batch and the next call on the tagged batch fails
\* with the same error, the batch after the second call equals the batch after
\* the first: every finding has the one ai_triage_error entry with the same
\* value, and all its other fields and metadata entries are those it had before
\* the first call.
C13_DegradationIdempotent ==
  \A i \in 1..Len(history) :
    FailedTwiceAlike(i) =>
      /\ history[i + 1].after = history[i].after
      /\ Len(history[i + 1].after) = Len(history[i].before)
      /\ \A k \in 1..Len(history[i].before) :
           /\ ErrorTagOnly(history[i].before[k], history[i + 1].after[k])
           /\ HasErrorTag(history[i + 1].after[k])

\* Two calls on a batch of findings that carried no tag both failed to reach the
\* service.
C13_Witness ==
  /\ Len(history) = 2
  /\ FailedTwiceAlike(1)
  /\ history[1].err = Some(<<"connection refused">>)
  /\ \A k \in 1..Len(history[1].before) : ~HasErrorTag(history[1].before[k])

\* ================================================================ the scan
\* The regular expressions of the rule table, each as the set of its
\* alternatives; an alternative is the sequence of the literal texts that must
\* occur in the line in this order, with anything between them (the .* of the
\* expression). Every expression is compiled with (?i). Alternatives with \s,
\* \w or \b are not listed.
Pattern1Go ==
  { <<<<"e", "x", "e", "c", ".", "C", "o", "m", "m", "a", "n", "d", "(">>, <<"+">>>>,
    <<<<"o", "s", ".", "E", "x", "e", "c">>>>,
    <<<<"s", "y", "s", "c", "a", "l", "l", ".", "E", "x", "e", "c">>>> }

Pattern1Py ==
  { <<<<"e", "v", "a", "l", "(">>>>,
    <<<<"e", "x", "e", "c", "(">>>>,
    <<<<"o", "s", ".", "s", "y", "s", "t", "e", "m", "(">>>>,
    <<<<"_", "_", "i", "m", "p", "o", "r", "t", "_", "_", "(">>>> }

Pattern1Js ==
  { <<<<"e", "v", "a", "l", "(">>>>,
    <<<<"v", "m", ".", "r", "u", "n", "I", "n", "N", "e", "w", "C", "o", "n", "t", "e", "x", "t">>>> }

Pattern1Ts == Pattern1Js

Pattern2Go ==
  { <<<<"r", ".", "U", "R", "L", ".", "Q", "u", "e", "r", "y", "(", ")", ".", "G", "e", "t", "(">>>>,
    <<<<"r", ".", "F", "o", "r", "m", "V", "a", "l", "u", "e", "(">>>>,
    <<<<"r", ".", "B", "o", "d", "y">>>>,
    <<<<"j", "s", "o", "n", ".", "U", "n", "m", "a", "r", "s", "h", "a", "l", "(">>, <<"r", "e", "q">>>> }

Pattern2Py ==
  { <<<<"r", "e", "q", "u", "e", "s", "t", ".", "a", "r", "g", "s", "[">>>>,
    <<<<"r", "e", "q", "u", "e", "s", "t", ".", "f", "o", "r", "m", "[">>>>,
    <<<<"r", "e", "q", "u", "e", "s", "t", ".", "j", "s", "o", "n", "[">>>>,
    <<<<"r", "e", "q", "u", "e", "s", "t", ".", "d", "a", "t", "a", "[">>>>,
    <<<<"r", "e", "q", "u", "e", "s", "t", ".", "v", "a", "l", "u", "e", "s", "[">>>>,
    <<<<"r", "e", "q", "u", "e", "s", "t", ".", "g", "e", "t", "_", "j", "s", "o", "n", "(">>>>,
    <<<<"f", "l", "a", "s", "k", ".", "r", "e", "q", "u", "e", "s", "t", ".", "a", "r", "g", "s">>>>,
    <<<<"f", "l", "a", "s", "k", ".", "r", "e", "q", "u", "e", "s", "t", ".", "f", "o", "r", "m">>>> }

Pattern2Js ==
  { <<<<"r", "e", "q", ".", "b", "o", "d", "y", "[">>>>,
    <<<<"r", "e", "q", ".", "q", "u", "e", "r", "y", "[">>>>,
    <<<<"r", "e", "q", ".", "p", "a", "r", "a", "m", "s", "[">>>> }

Pattern2Ts == Pattern2Js

Pattern3Go ==
  { <<<<"i", "o", "u", "t", "i", "l", ".">>>>,
    <<<<"c", "r", "y", "p", "t", "o", "/", "m", "d", "5">>>>,
    <<<<"c", "r", "y", "p", "t", "o", "/", "s", "h", "a", "1">>>>,
    <<<<"c", "r", "y", "p", "t", "o", "/", "d", "e", "s">>>> }

Pattern3Py ==
  { <<<<"h", "a", "s", "h", "l", "i", "b", ".", "m", "d", "5">>>> }

Pattern3Js ==
  { <<<<"d", "o", "c", "u", "m", "e", "n", "t", ".", "w", "r", "i", "t", "e", "(">>>>,
    <<<<"e", "s", "c", "a", "p", "e", "(">>>>,
    <<<<"u", "n", "e", "s", "c", "a", "p", "e", "(">>>> }

Pattern3Ts == Pattern3Js

Pattern4Go ==
  { <<<<"c", "r", "y", "p", "t", "o", ".">>>>,
    <<<<"t", "l", "s", ".">>>>,
    <<<<"x", "5", "0", "9", ".">>>>,
    <<<<"n", "e", "t", "/", "h", "t", "t", "p", ".", "H", "a", "n", "d", "l", "e">>>>,
    <<<<"m", "i", "d", "d", "l", "e", "w", "a", "r", "e">>>>,
    <<<<"j", "w", "t", ".">>>>,
    <<<<"b", "c", "r", "y", "p", "t", ".">>>>,
    <<<<"o", "a", "u", "t", "h">>>> }

Pattern4Py ==
  { <<<<"c", "r", "y", "p", "t", "o", "g", "r", "a", "p", "h", "y", ".">>>>,
    <<<<"h", "a", "s", "h", "l", "i", "b", ".">>>>,
    <<<<"h", "m", "a", "c", ".">>>>,
    <<<<"s", "s", "l", ".">>>>,
    <<<<"j", "w", "t", ".">>>>,
    <<<<"b", "c", "r", "y", "p", "t", ".">>>>,
    <<<<"p", "a", "s", "s", "l", "i", "b", ".">>>>,
    <<<<"o", "a", "u", "t", "h">>>> }

Pattern4Js ==
  { <<<<"c", "r", "y", "p", "t", "o", ".">>>>,
    <<<<"j", "s", "o", "n", "w", "e", "b", "t", "o", "k", "e", "n">>>>,
    <<<<"b", "c", "r", "y", "p", "t">>>>,
    <<<<"p", "a", "s", "s", "p", "o", "r", "t">>>>,
    <<<<"h", "e", "l", "m", "e", "t">>>>,
    <<<<"c", "o", "r", "s">>>>,
    <<<<"c", "s", "r", "f">>>>,
    <<<<"o", "a", "u", "t", "h">>>> }

Pattern4Ts == Pattern4Js

\* var rules = []triageRule{...}
rules ==
  << [ID |-> "TRIAGE-001",
      Desc |-> "Critical security pattern requiring immediate review: dangerous code execution with user input",
      Severity |-> SeverityHigh, Confidence |-> "HIGH", Priority |-> immediate,
      Patterns |-> [ext \in {".go", ".py", ".js", ".ts"} |->
                      IF ext = ".go" THEN Pattern1Go
                      ELSE IF ext = ".py" THEN Pattern1Py
                      ELSE IF ext = ".js" THEN Pattern1Js
                      ELSE Pattern1Ts]],
     [ID |-> "TRIAGE-002",
      Desc |-> "High-priority pattern for scheduled review: missing input validation on external data",
      Severity |-> SeverityMedium, Confidence |-> "HIGH", Priority |-> scheduled,
      Patterns |-> [ext \in {".go", ".py", ".js", ".ts"} |->
                      IF ext = ".go" THEN Pattern2Go
                      ELSE IF ext = ".py" THEN Pattern2Py
                      ELSE IF ext = ".js" THEN Pattern2Js
                      ELSE Pattern2Ts]],
     [ID |-> "TRIAGE-003",
      Desc |-> "Low-priority hygiene pattern: deprecated API usage or security-related TODO comments",
      Severity |-> SeverityLow, Confidence |-> "MEDIUM", Priority |-> backlog,
      Patterns |-> [ext \in {".go", ".py", ".js", ".ts"} |->
                      IF ext = ".go" THEN Pattern3Go
                      ELSE IF ext = ".py" THEN Pattern3Py
                      ELSE IF ext = ".js" THEN Pattern3Js
                      ELSE Pattern3Ts]],
     [ID |-> "TRIAGE-004",
      Desc |-> "Informational pattern for context: security-relevant code areas for review",
      Severity |-> SeverityInfo, Confidence |-> "HIGH", Priority |-> informational,
      Patterns |-> [ext \in {".go", ".py", ".js", ".ts"} |->
                      IF ext = ".go" THEN Pattern4Go
                      ELSE IF ext = ".py" THEN Pattern4Py
                      ELSE IF ext = ".js" THEN Pattern4Js
                      ELSE Pattern4Ts]] >>

\* Lines of source files.
LineEval == <<" ", " ", "e", "v", "a", "l", "(", "x", ")">>

LineHash == <<"h", " ", "=", " ", "H", "A", "S", "H", "L", "I", "B", ".", "M", "D", "5", "(", "p", ")">>

LinePlain == <<"x", " ", "=", " ", "1">>

LineExec == <<"e", "x", "e", "c", ".", "C", "o", "m", "m", "a", "n", "d", "(", "a", " ", "+", " ", "b", ")">>

LineReq == <<"q", " ", "=", " ", "r", "e", "q", ".", "b", "o", "d", "y", "[", "k", "]">>

\* var supportedExtensions
supportedExtensions == {".go", ".py", ".js", ".ts"}

\* var skippedDirs
skippedDirs == {".git", "vendor", "node_modules", "__pycache__", ".venv", "dist", "build"}

\* func extToLanguage
extToLanguage(ext) ==
  IF ext = ".go" THEN <<"go">>
  ELSE IF ext = ".py" THEN <<"python">>
  ELSE IF ext = ".js" THEN <<"javascript">>
  ELSE IF ext = ".ts" THEN <<"typescript">>
  ELSE <<"unknown">>

\* The segments segs occur in s in this order, one after the other, at or after
\* position from.
RECURSIVE MatchSegments(_, _, _)
MatchSegments(s, segs, from) ==
  IF segs = <<>> THEN TRUE
  ELSE \E i \in from..(Len(s) - Len(segs[1]) + 1) :
         /\ SubSeq(s, i, i + Len(segs[1]) - 1) = segs[1]
         /\ MatchSegments(s, Tail(segs), i + Len(segs[1]))

\* pattern.MatchString(line): some alternative matches somewhere in the line,
\* whatever the case of the letters.
MatchString(pattern, line) ==
  \E a \in pattern :
    MatchSegments(ToLower(line), [k \in 1..Len(a) |-> ToLower(a[k])], 1)

\* resp.Finding(rule.ID, rule.Severity, rule.Confidence, "<Desc>: <trimmed line>").
\*   At(filePath, lineNum, lineNum).WithMetadata("priority", ...).
\*   WithMetadata("language", ...).Done()
NewFinding(rule, filePath, ext, n, line) ==
  [RuleId |-> rule.ID, Severity |-> rule.Severity, Confidence |-> rule.Confidence,
   Message |-> <<rule.Desc, ": ">> \o TrimSpace(line),
   Location |-> Some([FilePath |-> filePath, StartLine |-> n, EndLine |-> n]),
   Metadata |-> Some(MetadataOf({<<"priority", rule.Priority>>,
                                 <<"language", extToLanguage(ext)>>}))]

\* A faulty variant of LineFindingsFrom: one that leaves the loop over the rules
\* at the first rule that matches.
LineFindingsFrom_FirstMatchOnly(i, filePath, ext, n, line) ==
  LET hits == {k \in i..Len(rules) :
                 ext \in DOMAIN rules[k].Patterns /\ MatchString(rules[k].Patterns[ext], line)}
  IN IF hits = {} THEN <<>> ELSE <<NewFinding(rules[SetMin(hits)], filePath, ext, n, line)>>

\* The body of the loop over the lines in scanFile: the findings of line n, one
\* for every rule, in the order of the table, that has a pattern for ext that
\* matches the line.
RECURSIVE LineFindingsFrom(_, _, _, _, _)
LineFindingsFrom(i, filePath, ext, n, line) ==
  IF i > Len(rules) THEN <<>>
  ELSE (IF ext \in DOMAIN rules[i].Patterns /\ MatchString(rules[i].Patterns[ext], line)
        THEN <<NewFinding(rules[i], filePath, ext, n, line)>>
        ELSE <<>>)
       \o LineFindingsFrom(i + 1, filePath, ext, n, line)

LineFindings(filePath, ext, n, line) == LineFindingsFrom(1, filePath, ext, n, line)

LineEmpty == <<>>

\* ------------------------------------------------------- the workspace
\* One entry of the workspace tree: its name (base and extension), the
\* directories above it, and what the file system does with it: a directory
\* whose content cannot be listed, a file that cannot be opened, a file whose
\* read fails when the scanner asks for line failAt (0: it is read to its end).
Entry(name, dirs, isDir, readErr, openFails, lines, failAt) ==
  [name |-> name, dirs |-> dirs, isDir |-> isDir, readErr |-> readErr,
   openFails |-> openFails, lines |-> lines, failAt |-> failAt]

File(name, dirs, lines) == Entry(name, dirs, FALSE, FALSE, FALSE, lines, 0)

Dir(name, readErr) == Entry(<<name>>, <<>>, TRUE, readErr, FALSE, <<>>, 0)

\* The entries a workspace is made of, in the lexical order filepath.WalkDir
\* visits them in.
EntryPool ==
  << File(<<"api", ".js">>, <<>>, <<LineReq, LineEval>>),
     File(<<"app", ".py">>, <<>>, <<LineEval, LinePlain, LineHash>>),
     Entry(<<"big", ".js">>, <<>>, FALSE, FALSE, FALSE, <<LineEval, LinePlain, LineReq>>, 2),
     File(<<"cmd", ".go">>, <<>>, <<LineExec, LineEmpty>>),
     Entry(<<"locked", ".py">>, <<>>, FALSE, FALSE, TRUE, <<LineEval>>, 0),
     File(<<"notes", ".md">>, <<>>, <<LineEval>>),
     Dir("pkg", FALSE),
     File(<<"util", ".py">>, <<"pkg">>, <<LineHash>>),
     Dir("secret", TRUE),
     File(<<"key", ".py">>, <<"secret">>, <<LineEval>>),
     Dir("vendor", FALSE),
     File(<<"lib", ".py">>, <<"vendor">>, <<LineEval>>) >>

\* The i-th smallest element of the set of numbers S.
Nth(S, i) == CHOOSE x \in S : Cardinality({y \in S : y <= x}) = i

\* The entries of the pool with the indices S, in the order of the pool.
Pick(S) == [i \in 1..Cardinality(S) |-> EntryPool[Nth(S, i)]]

\* Every entry of S that lies in a directory has that directory in S.
Closed(S) ==
  \A i \in S : \A k \in 1..Len(EntryPool[i].dirs) :
    \E j \in S : EntryPool[j].isDir /\ EntryPool[j].name[1] = EntryPool[i].dirs[k]

\* The workspaces: trees of at most MaxEntries entries.
Workspaces ==
  {Pick(S) : S \in {T \in SUBSET (1..Len(EntryPool)) : Cardinality(T) <= MaxEntries /\ Closed(T)}}

\* The root directory the workspace lies in; no other path exists.
WorkspaceDir == <<"/ws">>

\* The requests: Input["workspace_root"] absent, not a string or a string;
\* req.WorkspaceRoot empty, the workspace or a path that does not exist;
\* Input["ai_triage"] absent or true.
Requests ==
  [inputRoot : {Nil, Some([str |-> FALSE, val |-> <<"7">>]),
                Some([str |-> TRUE, val |-> WorkspaceDir])},
   reqRoot : {<<>>, WorkspaceDir, <<"/missing">>},
   aiTriage : {Nil, Some(TRUE)}]

\* context.Canceled and context.DeadlineExceeded
Canceled == <<"context canceled">>

DeadlineExceeded == <<"context deadline exceeded">>

\* workspaceRoot, _ := req.Input["workspace_root"].(string)
\* if workspaceRoot == "" { workspaceRoot = req.WorkspaceRoot }
WorkspaceRootOf(r) ==
  LET fromInput == IF r.inputRoot # Nil /\ r.inputRoot[1].str THEN r.inputRoot[1].val ELSE <<>>
  IN IF fromInput = <<>> THEN r.reqRoot ELSE fromInput

\* filepath.Ext(path)
Ext(e) == IF Len(e.name) = 2 THEN e.name[2] ELSE ""

\* The path WalkDir hands to the callback for the entry e.
PathOf(root, e) ==
  root \o [k \in 1..Len(e.dirs) |-> e.dirs[k]] \o e.name

\* The lines scanner.Scan() yields before it returns false.
LinesRead(e) == IF e.failAt = 0 THEN Len(e.lines) ELSE e.failAt - 1

\* scanner.Err() after the loop.
ScannerErr(e) == IF e.failAt = 0 THEN Nil ELSE Some(<<"read error">>)

\* The entries after walkIdx that WalkDir still calls the callback for: those
\* not below a directory it does not descend into.
Pending ==
  {j \in (walkIdx + 1)..Len(workspace) :
     \A k \in 1..Len(workspace[j].dirs) : workspace[j].dirs[k] \notin skipped}

\* No call of aiTriageFindings is going on.
CallIdle ==
  /\ findings = <<>>
  /\ pc = "Idle"
  /\ before = <<>>
  /\ calls = 0
  /\ content = <<>>
  /\ err = Nil
  /\ adjustments = <<>>
  /\ trace = <<>>
  /\ history = <<>>

InitScan ==
  /\ CallIdle
  /\ req \in Requests
  /\ workspace \in Workspaces
  /\ ctxErr = Nil
  /\ scanPc = "Start"
  /\ walkIdx = 0
  /\ skipped = {}
  /\ cur = Nil
  /\ lineNum = 0
  /\ walkErr = Nil
  /\ resp = <<>>
  /\ events = <<>>
  /\ result = Nil

\* The callback's record of what it did with the entry idx (0: the root).
Event(idx, what) == [idx |-> idx, what |-> what]

\* A faulty variant of HandleScan: one that refuses a request without a
\* workspace root.
HandleScan_RootRequired ==
  /\ scanPc = "Start"
  /\ IF WorkspaceRootOf(req) = <<>>
     THEN /\ result' = Some([resp |-> Nil, err |-> Some(<<"workspace root required">>)])
          /\ scanPc' = "Returned"
     ELSE /\ scanPc' = "WalkRoot"
          /\ UNCHANGED result
  /\ UNCHANGED <<req, workspace, ctxErr, walkIdx, skipped, cur, lineNum, walkErr, resp, events>>
  /\ UNCHANGED callVars

\* handleScan up to the call of filepath.WalkDir: without a workspace root it
\* returns the empty response.
HandleScan ==
  /\ scanPc = "Start"
  /\ IF WorkspaceRootOf(req) = <<>>
     THEN /\ result' = Some([resp |-> Some(<<>>), err |-> Nil])
          /\ scanPc' = "Returned"
     ELSE /\ scanPc' = "WalkRoot"
          /\ UNCHANGED result
  /\ UNCHANGED <<req, workspace, ctxErr, walkIdx, skipped, cur, lineNum, walkErr, resp, events>>
  /\ UNCHANGED callVars

\* The errors of the file system the walker meets.
NotExist == <<"lstat: no such file or directory">>

PermissionDenied == <<"open: permission denied">>

\* A faulty variant of CallbackOnErr: one that hands the error back to WalkDir.
CallbackOnErr_Propagates(e) == Some(e)

\* The callback called with an error: if err != nil { return nil }
CallbackOnErr(e) == Nil

\* WalkDir on the root: when the root cannot be read the callback is called with
\* the error and returns nil, and the walk is over; otherwise the callback is
\* called for the root directory.
VisitRoot ==
  /\ scanPc = "WalkRoot"
  /\ IF WorkspaceRootOf(req) # WorkspaceDir
     THEN /\ events' = Append(events, Event(0, "walkErr"))
          /\ walkErr' = CallbackOnErr(NotExist)
          /\ scanPc' = "WalkDone"
     ELSE IF ctxErr # Nil
     THEN /\ events' = Append(events, Event(0, "ctxErr"))
          /\ walkErr' = ctxErr
          /\ scanPc' = "WalkDone"
     ELSE /\ events' = Append(events, Event(0, "dir"))
          /\ scanPc' = "Walking"
          /\ UNCHANGED walkErr
  /\ UNCHANGED <<req, workspace, ctxErr, walkIdx, skipped, cur, lineNum, resp, result>>
  /\ UNCHANGED callVars

\* The callback of filepath.WalkDir for the next entry: it gives up when the
\* context has ended, passes directories (not descending into those of
\* skippedDirs; a directory that cannot be listed makes WalkDir call it once
\* more, with the error, and it returns nil), passes files without a supported
\* extension, and calls scanFile, which opens the file or, if it cannot, returns
\* nil.
Visit ==
  /\ scanPc = "Walking"
  /\ Pending # {}
  /\ LET j == SetMin(Pending)
         e == workspace[j]
     IN /\ walkIdx' = j
        /\ IF ctxErr # Nil
           THEN /\ events' = Append(events, Event(j, "ctxErr"))
                /\ walkErr' = ctxErr
                /\ scanPc' = "WalkDone"
                /\ UNCHANGED <<skipped, cur, lineNum>>
           ELSE IF e.isDir
           THEN /\ IF e.name[1] \in skippedDirs
                   THEN /\ events' = Append(events, Event(j, "skipDir"))
                        /\ skipped' = skipped \cup {e.name[1]}
                        /\ UNCHANGED <<walkErr, scanPc>>
                   ELSE IF e.readErr
                   THEN /\ events' = events \o <<Event(j, "dir"), Event(j, "walkErr")>>
                        /\ skipped' = skipped \cup {e.name[1]}
                        /\ walkErr' = CallbackOnErr(PermissionDenied)
                        /\ scanPc' = IF CallbackOnErr(PermissionDenied) = Nil
                                     THEN "Walking" ELSE "WalkDone"
                   ELSE /\ events' = Append(events, Event(j, "dir"))
                        /\ UNCHANGED <<skipped, walkErr, scanPc>>
                /\ UNCHANGED <<cur, lineNum>>
           ELSE IF Ext(e) \notin supportedExtensions
           THEN /\ events' = Append(events, Event(j, "unsupported"))
                /\ UNCHANGED <<walkErr, scanPc, skipped, cur, lineNum>>
           ELSE IF e.openFails
           THEN /\ events' = Append(events, Event(j, "openErr"))
                /\ UNCHANGED <<walkErr, scanPc, skipped, cur, lineNum>>
           ELSE /\ events' = Append(events, Event(j, "scan"))
                /\ cur' = Some(j)
                /\ lineNum' = 0
                /\ scanPc' = "Scanning"
                /\ UNCHANGED <<walkErr, skipped>>
  /\ UNCHANGED <<req, workspace, ctxErr, resp, result>>
  /\ UNCHANGED callVars

\* for scanner.Scan() { lineNum++; line := scanner.Text(); for i := range rules {...} }
\* one turn of the loop.
ScanLine ==
  /\ scanPc = "Scanning"
  /\ lineNum < LinesRead(workspace[cur[1]])
  /\ LET e == workspace[cur[1]]
     IN /\ lineNum' = lineNum + 1
        /\ resp' = resp \o LineFindings(PathOf(WorkspaceRootOf(req), e), Ext(e),
                                        lineNum + 1, e.lines[lineNum + 1])
  /\ UNCHANGED <<req, workspace, ctxErr, scanPc, walkIdx, skipped, cur, walkErr, events, result>>
  /\ UNCHANGED callVars

\* scanner.Scan() returns false: scanFile returns scanner.Err(), and WalkDir
\* goes on if that is nil and returns it otherwise.
ScanEnd ==
  /\ scanPc = "Scanning"
  /\ lineNum >= LinesRead(workspace[cur[1]])
  /\ LET e == workspace[cur[1]]
     IN IF ScannerErr(e) = Nil
        THEN /\ events' = Append(events, Event(cur[1], "scanned"))
             /\ scanPc' = "Walking"
             /\ UNCHANGED walkErr
        ELSE /\ events' = Append(events, Event(cur[1], "readErr"))
             /\ walkErr' = ScannerErr(e)
             /\ scanPc' = "WalkDone"
  /\ cur' = Nil
  /\ UNCHANGED <<req, workspace, ctxErr, walkIdx, skipped, lineNum, resp, result>>
  /\ UNCHANGED callVars

\* WalkDir has passed every entry.
WalkEnd ==
  /\ scanPc = "Walking"
  /\ Pending = {}
  /\ scanPc' = "WalkDone"
  /\ UNCHANGED <<req, workspace, ctxErr, walkIdx, skipped, cur, lineNum, walkErr, resp, events,
                 result>>
  /\ UNCHANGED callVars

\* The context of the request ends while the scan runs: it is cancelled or its
\* deadline passes.
Cancel ==
  /\ scanPc \in {"Start", "WalkRoot", "Walking", "Scanning"}
  /\ ctxErr = Nil
  /\ ctxErr' \in {Some(Canceled), Some(DeadlineExceeded)}
  /\ UNCHANGED <<req, workspace, scanPc, walkIdx, skipped, cur, lineNum, walkErr, resp, events,
                 result>>
  /\ UNCHANGED callVars

\* fmt.Errorf("walking workspace: %w", err)
WalkingWorkspace(e) == <<"walking workspace: ">> \o e

\* A faulty variant of Finish: one that treats cancellation like every other
\* error of the walk.
Finish_CancelIsError ==
  /\ scanPc = "WalkDone"
  /\ result' = IF walkErr # Nil
               THEN Some([resp |-> Nil, err |-> Some(WalkingWorkspace(walkErr[1]))])
               ELSE Some([resp |-> Some(resp), err |-> Nil])
  /\ scanPc' = "Returned"
  /\ UNCHANGED <<req, workspace, ctxErr, walkIdx, skipped, cur, lineNum, walkErr, resp, events>>
  /\ UNCHANGED callVars

\* if err != nil && err != context.Canceled { return nil, fmt.Errorf(...) }
\* return resp.Build(), nil
Finish ==
  /\ scanPc = "WalkDone"
  /\ result' = IF walkErr # Nil /\ walkErr # Some(Canceled)
               THEN Some([resp |-> Nil, err |-> Some(WalkingWorkspace(walkErr[1]))])
               ELSE Some([resp |-> Some(resp), err |-> Nil])
  /\ scanPc' = "Returned"
  /\ UNCHANGED <<req, workspace, ctxErr, walkIdx, skipped, cur, lineNum, walkErr, resp, events>>
  /\ UNCHANGED callVars

NextScan ==
  \/ HandleScan
  \/ VisitRoot
  \/ Visit
  \/ ScanLine
  \/ ScanEnd
  \/ WalkEnd
  \/ Cancel
  \/ Finish

ScanSpec == InitScan /\ [][NextScan]_vars

\* ------------------------------------------------------------------ C14
\* The scan has finished.
ScanReturned == scanPc = "Returned"

\* The callback did `what` with the entry j.
Happened(j, what) == \E i \in 1..Len(events) : events[i] = Event(j, what)

\* The rows of the rule table as the specification gives them: rule id,
\* severity, confidence and priority.
RuleRows ==
  { <<"TRIAGE-001", SeverityHigh, "HIGH", immediate>>,
    <<"TRIAGE-002", SeverityMedium, "HIGH", scheduled>>,
    <<"TRIAGE-003", SeverityLow, "MEDIUM", backlog>>,
    <<"TRIAGE-004", SeverityInfo, "HIGH", informational>> }

\* The rule with the id rid has a pattern for ext and it matches the line.
RuleMatches(rid, ext, line) ==
  \E i \in 1..Len(rules) :
    /\ rules[i].ID = rid
    /\ ext \in DOMAIN rules[i].Patterns
    /\ MatchString(rules[i].Patterns[ext], line)

\* The lines of the entry j the scanner has yielded so far.
LinesDone(j) ==
  IF cur = Some(j) THEN lineNum
  ELSE IF Happened(j, "scan") THEN LinesRead(workspace[j])
  ELSE 0

\* The findings of the response builder for line n of the entry j under rule rid.
FindingsAt(j, n, rid) ==
  {i \in 1..Len(resp) :
     /\ resp[i].RuleId = rid
     /\ resp[i].Location = Some([FilePath |-> PathOf(WorkspaceRootOf(req), workspace[j]),
                                 StartLine |-> n, EndLine |-> n])}

\* C14: the line scanner emits, for every line of a file (numbered from 1) and
\* every rule that has a pattern for the file's extension that matches the line,
\* exactly one finding, and no other finding: the finding has the rule's id,
\* severity, confidence and priority, start_line = end_line = the line number
\* (never 0), and a line matched by k rules yields k findings.
C14_OneFindingPerLineAndRule ==
  /\ \A j \in 1..Len(workspace) : \A n \in 1..LinesDone(j) : \A row \in RuleRows :
       Cardinality(FindingsAt(j, n, row[1])) =
         IF RuleMatches(row[1], Ext(workspace[j]), workspace[j].lines[n]) THEN 1 ELSE 0
  /\ \A i \in 1..Len(resp) :
       /\ resp[i].Location # Nil
       /\ resp[i].Location[1].StartLine >= 1
       /\ resp[i].Location[1].EndLine = resp[i].Location[1].StartLine
       /\ <<resp[i].RuleId, resp[i].Severity, resp[i].Confidence, PriorityOf(resp[i])>> \in RuleRows
       /\ \E j \in 1..Len(workspace) :
            /\ resp[i].Location[1].StartLine <= LinesDone(j)
            /\ i \in FindingsAt(j, resp[i].Location[1].StartLine, resp[i].RuleId)

\* A file was scanned to its end and its third line, in capital letters, was
\* matched by two rules: two findings for that line, after the one of line 1.
C14_Witness ==
  /\ \E j \in 1..Len(workspace) :
       /\ Happened(j, "scanned")
       /\ Len(workspace[j].lines) = 3
       /\ Cardinality({i \in 1..Len(resp) :
                         resp[i].Location[1].FilePath = PathOf(WorkspaceRootOf(req), workspace[j])
                         /\ resp[i].Location[1].StartLine = 3}) = 2
       /\ Cardinality(FindingsAt(j, 1, "TRIAGE-001")) = 1
       /\ Cardinality(FindingsAt(j, 2, "TRIAGE-001")) = 0

\* ------------------------------------------------------------------ C15
\* The scan returned a response and no error.
Succeeded == result # Nil /\ result[1].err = Nil /\ result[1].resp # Nil

\* The findings of the returned response that lie in the entry j.
ReturnedFindingsOf(j) ==
  {i \in 1..Len(result[1].resp[1]) :
     result[1].resp[1][i].Location[1].FilePath = PathOf(WorkspaceRootOf(req), workspace[j])}

\* C15: a file that cannot be opened or cannot be read to its end is skipped
\* silently: with no cancellation in play, the scan that met such a file returns
\* without an error, with no finding of that file, and it went on to the end of
\* the workspace.
C15_UnreadableFileSkipped ==
  (ScanReturned /\ ctxErr = Nil) =>
    \A j \in 1..Len(workspace) :
      (Happened(j, "openErr") \/ Happened(j, "readErr")) =>
        /\ Succeeded
        /\ ReturnedFindingsOf(j) = {}
        /\ Pending = {}

\* ------------------------------------------------------------------ C16
\* The callback has seen that the context has ended.
SawContextEnd == \E i \in 1..Len(events) : events[i].what = "ctxErr"

\* C16 as claimed: a scan that observes cancellation does not return a
\* successful response; it returns the context's own error, not wrapped.
C16_CancellationPropagatesUnwrapped ==
  (ScanReturned /\ SawContextEnd) =>
    /\ result[1].resp = Nil
    /\ result[1].err = ctxErr

\* The walk is over.
WalkOver == scanPc \in {"WalkDone", "Returned"}

\* C16 as amended: the callback looks at the context once per entry, before it
\* does anything with the entry; when it sees that the context has ended the
\* walk stops there (that sight is the last thing the callback does), while a
\* file whose scan has begun is always scanned until the scanner stops; a scan
\* that saw a cancelled context returns a successful response with the findings
\* collected so far and no error, and a scan that saw another context error
\* returns no response and that error wrapped in "walking workspace: ".
C16_CancellationEndsWalkQuietly ==
  /\ SawContextEnd =>
       /\ events[Len(events)].what = "ctxErr"
       /\ WalkOver
       /\ walkErr = ctxErr
  /\ WalkOver =>
       \A j \in 1..Len(workspace) :
         Happened(j, "scan") => (Happened(j, "scanned") \/ Happened(j, "readErr"))
  /\ (ScanReturned /\ SawContextEnd) =>
       IF ctxErr = Some(Canceled)
       THEN result = Some([resp |-> Some(resp), err |-> Nil])
       ELSE result = Some([resp |-> Nil, err |-> Some(WalkingWorkspace(DeadlineExceeded))])

\* The context was cancelled while a file was scanned; the file was scanned to
\* its end, the walk stopped at the next entry and the scan returned the
\* findings of the file with success.
C16_Witness ==
  /\ ScanReturned
  /\ SawContextEnd
  /\ ctxErr = Some(Canceled)
  /\ Succeeded
  /\ Len(result[1].resp[1]) > 0
  /\ \E j \in 1..Len(workspace) : Happened(j, "scanned")

\* ------------------------------------------------------------------ C17
\* The callback was called with an error of the walk.
SawWalkError == \E i \in 1..Len(events) : events[i].what = "walkErr"

\* C17 as claimed: a traversal error aborts the whole scan: scan returns an
\* error and no findings.
C17_TraversalErrorAborts ==
  (ScanReturned /\ SawWalkError) =>
    /\ result[1].err # Nil
    /\ result[1].resp = Nil

\* The scan was ended by something else than an error of the walk: the context
\* or a read that failed.
EndedOtherwise ==
  \E i \in 1..Len(events) : events[i].what \in {"ctxErr", "readErr"}

\* C17 as amended: a traversal error is swallowed: the callback returns nil for
\* it, so it is never the error of the walk and never the error of the scan;
\* the directory that cannot be listed is not descended into (a root that cannot
\* be read ends the walk), the walk goes on with the entries after it, and a
\* scan that returns an error was ended by the context or by a read that
\* failed.
C17_TraversalErrorSwallowed ==
  SawWalkError =>
    /\ (~EndedOtherwise => walkErr = Nil)
    /\ \A j \in 1..Len(workspace) : \A k \in 1..Len(workspace[j].dirs) :
         (\E d \in 1..Len(workspace) :
            workspace[d].name = <<workspace[j].dirs[k]>> /\ Happened(d, "walkErr"))
           => \A i \in 1..Len(events) : events[i].idx # j
    /\ (WalkOver /\ ~EndedOtherwise /\ Happened(0, "dir")) => Pending = {}
    /\ ScanReturned =>
         /\ (result[1].err # Nil => EndedOtherwise)
         /\ (~EndedOtherwise => Succeeded /\ result[1].resp = Some(resp))

\* A directory could not be listed, the walk went on, scanned a file after it
\* and the scan returned that file's findings with success.
C17_Witness ==
  /\ ScanReturned
  /\ \E d \in 1..Len(workspace) :
       /\ Happened(d, "walkErr")
       /\ \E j \in (d + 1)..Len(workspace) : Happened(j, "scanned") \/ Happened(j, "skipDir")
  /\ Succeeded

\* ------------------------------------------------------------------ C18
\* The caller asked for the adjustment: Input["ai_triage"] is true.
TriageEnabled == req.aiTriage = Some(TRUE)

\* The metadata keys the scanner writes.
ScannerKeys == {"priority", "language"}

\* C18: the scan runs the adjuster on the aggregated findings exactly when the
\* caller enabled it: a scan that returns findings with ai_triage: true has
\* invoked the reasoning service, and a scan without it has not invoked the
\* service and returns findings without ai_* metadata.
C18_AdjusterRunsWhenEnabled ==
  (ScanReturned /\ Succeeded) =>
    /\ (TriageEnabled /\ Len(result[1].resp[1]) > 0) => calls >= 1
    /\ ~TriageEnabled =>
         /\ calls = 0
         /\ \A i \in 1..Len(result[1].resp[1]) :
              DOMAIN GetMetadata(result[1].resp[1][i]) \subseteq ScannerKeys

\* ------------------------------------------------------------------ C19
\* The request names a workspace and no file of the workspace has a supported
\* extension.
NoSupportedFile ==
  /\ WorkspaceRootOf(req) # <<>>
  /\ \A j \in 1..Len(workspace) :
       workspace[j].isDir \/ Ext(workspace[j]) \notin supportedExtensions

\* The scan returned a successful response with zero findings.
EmptySuccess == result = Some([resp |-> Some(<<>>), err |-> Nil])

\* C19 as claimed: a scan with no workspace root and a scan of a workspace
\* without a file with a supported extension both return a successful response
\* with zero findings and no error.
C19_EmptyScanSucceeds ==
  (ScanReturned /\ (WorkspaceRootOf(req) = <<>> \/ NoSupportedFile)) => EmptySuccess

\* The callback saw that the deadline of the context has passed.
SawDeadline == SawContextEnd /\ ctxErr = Some(DeadlineExceeded)

\* C19 as amended: a scan with no workspace root returns a successful response
\* with zero findings and no error, whatever the context; a scan of a workspace
\* without a file with a supported extension does so too, unless the walk sees
\* that the deadline of the context has passed: then it returns no response and
\* the context's error wrapped in "walking workspace: ".
C19_EmptyScanSucceedsUnlessDeadline ==
  /\ (ScanReturned /\ WorkspaceRootOf(req) = <<>>) => EmptySuccess /\ events = <<>>
  /\ (ScanReturned /\ NoSupportedFile) =>
       IF SawDeadline
       THEN result = Some([resp |-> Nil, err |-> Some(WalkingWorkspace(DeadlineExceeded))])
       ELSE EmptySuccess

\* A workspace with a file, none of them with a supported extension, was walked
\* to its end and the scan returned the empty response.
C19_Witness ==
  /\ ScanReturned
  /\ NoSupportedFile
  /\ WorkspaceRootOf(req) = WorkspaceDir
  /\ \E j \in 1..Len(workspace) : Happened(j, "unsupported")
  /\ Pending = {}
  /\ EmptySuccess

\* ------------------------------------------------------------------ C20
\* The finding g carries what the adjustment a says about the finding f it is
\* merged into: its classification and reason, its severity if it names one and
\* its priority if it gives one.
MergedWith(f, g, a) ==
  LET m == GetMetadata(g)
      named == {p \in SeverityByName : EqualFold(a.AdjustedSeverity, p[1])}
  IN /\ MapGet(m, "ai_triaged") = <<"true">>
     /\ MapGet(m, "ai_classification") = a.Classification
     /\ MapGet(m, "ai_triage_reason") = a.Reason
     /\ IF named # {} THEN \E p \in named : g.Severity = p[2] ELSE g.Severity = f.Severity
     /\ PriorityOf(g) = IF a.AdjustedPriority # <<>> THEN a.AdjustedPriority ELSE PriorityOf(f)

\* C20: when a parsed response contains several adjustments with the same
\* identity triple (rule_id, file, line), the finding with that triple is merged
\* with the one of them that comes last in the response array (classification,
\* reason, severity and priority), and the earlier ones have no effect.
C20_LastWriteWins ==
  (Finished /\ Did("merge")) =>
    \A i \in 1..Len(before) :
      Cardinality(WithTripleOf(before[i])) >= 2 =>
        MergedWith(before[i], findings[i], adjustments[SetMax(WithTripleOf(before[i]))])

\* ------------------------------------------------------------------ C21
\* The start line of the finding f as an integer (0 without a location).
LineOfFinding(f) == IF f.Location # Nil THEN Int64(0, f.Location[1].StartLine) ELSE Int64(0, 0)

\* The adjustments of the parsed response whose line is, as an integer, the
\* start line of the finding f.
WithLineOf(f) == {k \in 1..Len(adjustments) : adjustments[k].Line = LineOfFinding(f)}

\* C21: an adjustment is merged into a finding only when its line equals the
\* finding's start_line as an integer: a finding for whose start line the
\* response has no adjustment, also when it has one for a line that differs from
\* it by a multiple of 2^32, is left unchanged by the merge.
C21_LineComparedAsInteger ==
  (Finished /\ Did("merge")) =>
    \A i \in 1..Len(before) :
      WithLineOf(before[i]) = {} => findings[i] = before[i]

\* ------------------------------------------------------------------ C22
\* The adjustment the call h of the history merged into its finding i: Nil when
\* the call did not merge or found none.
MergedInto(h, i) ==
  IF \E s \in 1..Len(history[h].trace) : history[h].trace[s] = "merge"
  THEN Lookup(history[h].adjustments, FindingKey(history[h].before[i]))
  ELSE Nil

\* The calls up to h that overwrote the severity of finding i: they merged an
\* adjustment that names a severity.
SeverityOverwrites(h, i) ==
  {g \in 1..h :
     /\ MergedInto(g, i) # Nil
     /\ \E p \in SeverityByName : EqualFold(MergedInto(g, i)[1].AdjustedSeverity, p[1])}

\* The calls up to h that overwrote the priority of finding i: they merged an
\* adjustment that gives a priority.
PriorityOverwrites(h, i) ==
  {g \in 1..h : MergedInto(g, i) # Nil /\ MergedInto(g, i)[1].AdjustedPriority # <<>>}

\* C22: after any sequence of calls on the same batch, the ai_original_severity
\* of a finding, when present, is the display name of the severity the finding
\* had at the start of the most recent call that overwrote its severity, and
\* ai_original_priority is the priority entry it had at the start of the most
\* recent call that overwrote its priority: a second successful adjustment
\* replaces the recorded original with the already adjusted value.
C22_OriginalIsOfLastOverwrite ==
  \A h \in 1..Len(history) : \A i \in 1..Len(history[h].after) :
    LET m == GetMetadata(history[h].after[i])
        so == SeverityOverwrites(h, i)
        po == PriorityOverwrites(h, i)
    IN /\ "ai_original_severity" \in DOMAIN m =>
            /\ so # {}
            /\ m["ai_original_severity"] =
                 SeverityString(history[SetMax(so)].before[i].Severity)
       /\ "ai_original_priority" \in DOMAIN m =>
            /\ po # {}
            /\ m["ai_original_priority"] = PriorityOf(history[SetMax(po)].before[i])

\* Two calls in a row overwrote the severity of a finding: the recorded original
\* is the severity the first call assigned, not the one the finding began with.
C22_Witness ==
  /\ Len(history) = 2
  /\ \E i \in 1..Len(findings) :
       /\ SeverityOverwrites(2, i) = {1, 2}
       /\ "ai_original_severity" \in DOMAIN GetMetadata(findings[i])
       /\ GetMetadata(findings[i])["ai_original_severity"]
            # SeverityString(history[1].before[i].Severity)
       /\ GetMetadata(findings[i])["ai_original_severity"]
            = SeverityString(history[1].after[i].Severity)

\* ------------------------------------------------------------------ C23
\* C23: adjustment never makes a severity invalid: a batch whose findings all
\* have one of the five recognized severities still has only recognized
\* severities, and never the unspecified value 0, after any sequence of calls
\* with any outcome (errors, unparsable text, empty or unrecognized
\* adjusted_severity strings).
C23_SeverityStaysValid ==
  (\A h \in 1..Len(history) : \A i \in 1..Len(history[h].before) :
     history[h].before[i].Severity \in Severities) =>
    /\ \A i \in 1..Len(findings) :
         findings[i].Severity \in Severities /\ findings[i].Severity # SeverityUnspecified
    /\ \A h \in 1..Len(history) : \A i \in 1..Len(history[h].after) :
         history[h].after[i].Severity \in Severities

\* A call merged an adjustment whose adjusted_severity is no severity name, the
\* next one merged an adjustment without adjusted_severity, and the finding
\* still has the severity it began with.
C23_Witness ==
  /\ Len(history) = 2
  /\ \E i \in 1..Len(findings) :
       /\ MergedInto(1, i) # Nil
       /\ MergedInto(1, i)[1].AdjustedSeverity = <<"u","r","g","e","n","t">>
       /\ MergedInto(2, i) # Nil
       /\ MergedInto(2, i)[1].AdjustedSeverity = <<>>
       /\ findings[i].Severity = history[1].before[i].Severity
       /\ findings[i].Severity \in Severities

====
